---- MODULE Spec2Model ----
(***************************************************************************)
(* Model of inks.py: the unit-carrying Value, the Material catalog with    *)
(* its per-category indexer, the derived-quantity functions                *)
(* (divide_interval, calc_sr, trace resistance) and the Plot2D renderer.   *)
(*                                                                         *)
(* Magnitudes are exact rationals [n, d] in lowest terms (d > 0); the      *)
(* rounding of IEEE doubles is abstracted away.                            *)
(***************************************************************************)
EXTENDS Integers, Sequences, FiniteSets, TLC

----------------------------------------------------------------------------
(* Bounds of the model *)

\* largest sample count handed to divide_interval in the function harness
MaxNum == 4

\* number of Material constructions in the free construction harness
MaxMatls == 4

\* number of renderer calls made on the Plot2D instance
MaxCalls == 2

----------------------------------------------------------------------------
(* Exact rational arithmetic standing for Python floats *)

Abs(x) ==
  IF x < 0 THEN -x ELSE x

RECURSIVE GCD(_, _)
GCD(a, b) ==
  IF b = 0 THEN a ELSE GCD(b, a % b)

\* the rational n/d in lowest terms with a positive denominator
Rat(n, d) ==
  LET g == GCD(Abs(n), Abs(d))
      s == IF d < 0 THEN -1 ELSE 1
  IN  [n |-> s * (n \div g), d |-> s * (d \div g)]

\* the decimal literal m * 10^-3, as the data table writes its magnitudes
Milli(m) ==
  Rat(m, 1000)

RInt(k) ==
  [n |-> k, d |-> 1]

RMul(a, b) ==
  LET g1 == GCD(Abs(a.n), b.d)
      g2 == GCD(Abs(b.n), a.d)
  IN  Rat((a.n \div g1) * (b.n \div g2), (a.d \div g2) * (b.d \div g1))

RDiv(a, b) ==
  RMul(a, IF b.n < 0 THEN [n |-> -b.d, d |-> -b.n] ELSE [n |-> b.d, d |-> b.n])

RAdd(a, b) ==
  LET g == GCD(a.d, b.d)
  IN  Rat(a.n * (b.d \div g) + b.n * (a.d \div g), (a.d \div g) * b.d)

RSub(a, b) ==
  RAdd(a, [n |-> -b.n, d |-> b.d])

RLt(a, b) ==
  LET g == GCD(a.d, b.d)
  IN  a.n * (b.d \div g) < b.n * (a.d \div g)

RLe(a, b) ==
  a = b \/ RLt(a, b)

\* Python's None for an omitted positional argument
None ==
  [n |-> 0, d |-> 0]

----------------------------------------------------------------------------
(* Units: each unit is its scale to the SI base unit of its dimension *)

\* BR with the length taken in millimetres instead of centimetres
BR_mm ==
  RMul(Rat(1, 1000000), Rat(1, 1000))

\* u.uohm * u.cm
BR ==
  RMul(Rat(1, 1000000), Rat(1, 100))

\* u.mohm
SR ==
  Rat(1, 1000)

\* u.micron
TH ==
  Rat(1, 1000000)

\* u.ohms
Ohms ==
  RInt(1)

Inch ==
  Rat(254, 10000)

Cm ==
  Rat(1, 100)

Mm ==
  Rat(1, 1000)

Milliinch ==
  RMul(Rat(1, 1000), Inch)

\* Quantity.to(): the magnitude of q re-expressed in the unit of scale `target`
To(q, target) ==
  [mag |-> RMul(q.mag, RDiv(q.unit, target)), unit |-> target]

\* magnitude * unit
Q(mag, unit) ==
  [mag |-> mag, unit |-> unit]

QMul(a, b) ==
  [mag |-> RMul(a.mag, b.mag), unit |-> RMul(a.unit, b.unit)]

QDiv(a, b) ==
  [mag |-> RDiv(a.mag, b.mag), unit |-> RDiv(a.unit, b.unit)]

----------------------------------------------------------------------------
(* Value and plus_or_minus *)

plus_or_minus(value, tolerance) ==
  <<value, RAdd(value, tolerance), RSub(value, tolerance)>>

\* Value.__init__ that puts the smaller of (val2, val3) in valmin
Value_ordered(units, val1, val2, val3) ==
  IF val2 # None
    THEN IF val3 # None
           THEN [units |-> units, value |-> val1,
                 valmin |-> IF RLt(val3, val2) THEN val3 ELSE val2,
                 valmax |-> IF RLt(val3, val2) THEN val2 ELSE val3]
           ELSE [units |-> units,
                 value |-> RMul(Rat(1, 2), RAdd(val1, val2)),
                 valmin |-> val1, valmax |-> val2]
    ELSE [units |-> units, value |-> val1, valmin |-> val1, valmax |-> val1]

\* Value.__init__: the three stored magnitudes (each carries `units`)
Value(units, val1, val2, val3) ==
  IF val2 # None
    THEN IF val3 # None
           THEN [units |-> units, value |-> val1, valmin |-> val2, valmax |-> val3]
           ELSE [units |-> units,
                 value |-> RMul(Rat(1, 2), RAdd(val1, val2)),
                 valmin |-> val1, valmax |-> val2]
    ELSE [units |-> units, value |-> val1, valmin |-> val1, valmax |-> val1]

----------------------------------------------------------------------------
(* Derived-quantity functions *)

\* np.full that ignores num and returns one point
np_full_one(num, v) ==
  <<v>>

\* np.full(num, v)
np_full(num, v) ==
  [i \in 1..num |-> v]

\* np.linspace with endpoint=False
np_linspace_open(start, stop, num) ==
  LET step == RDiv(RSub(stop, start), RInt(num))
  IN  [i \in 1..num |-> RAdd(start, RMul(RInt(i - 1), step))]

\* np.linspace(start, stop, num), endpoint included
np_linspace(start, stop, num) ==
  IF num = 1
    THEN <<start>>
    ELSE LET step == RDiv(RSub(stop, start), RInt(num - 1))
         IN  [i \in 1..num |->
                IF i = num THEN stop ELSE RAdd(start, RMul(RInt(i - 1), step))]

divide_interval(value, num) ==
  IF value.valmin = value.valmax
    THEN np_full(num, value.valmin)
    ELSE np_linspace(value.valmin, value.valmax, num)

\* calc_sr_units with numerator and denominator exchanged
calc_sr_units_inv(br, th) ==
  To(QDiv(Q(th, TH), Q(br, BR)), SR)

calc_sr_units(br, th) ==
  To(QDiv(Q(br, BR), Q(th, TH)), SR)

calc_sr(br, th) ==
  calc_sr_units(br, th).mag

----------------------------------------------------------------------------
(* Category, PCB weights, Trace *)

metal == 1
flexo == 2
inkjet == 3
screen == 4
aerosol == 5
carbon == 6

Category ==
  {metal, flexo, inkjet, screen, aerosol, carbon}

Catname ==
  [c \in Category |->
     CASE c = metal -> "metal" [] c = flexo -> "flexo" [] c = inkjet -> "inkjet"
       [] c = screen -> "screen" [] c = aerosol -> "aerosol" [] OTHER -> "carbon"]

PCB_weight(weight, microns, mils) ==
  [weight |-> weight, microns |-> microns, mils |-> mils]

pcb_weights ==
  << PCB_weight(Milli(500),  Milli(17400),  Milli(700)),
     PCB_weight(Milli(1000), Milli(34800),  Milli(1400)),
     PCB_weight(Milli(2000), Milli(69600),  Milli(2800)),
     PCB_weight(Milli(4000), Milli(139200), Milli(5600)) >>

\* Trace.__init__ on three quantities
Trace(length, width, thickness) ==
  [length |-> length, width |-> width, thickness |-> thickness,
   area |-> QMul(length, width), squares |-> QDiv(length, width)]

----------------------------------------------------------------------------
(* Material and its per-category indexer *)

catfactor == 20
catstep == 1

\* Material.indexer whose first member of a category is already stepped
indexer_stepped(index, cat) ==
  IF cat \in DOMAIN index
    THEN [index EXCEPT ![cat] = @ + catstep]
    ELSE [c \in (DOMAIN index) \cup {cat} |->
            IF c = cat THEN catfactor * cat + catstep ELSE index[c]]

\* Material.indexer: the class dictionary Material.index after the call
indexer(index, cat) ==
  IF cat \in DOMAIN index
    THEN [index EXCEPT ![cat] = @ + catstep]
    ELSE [c \in (DOMAIN index) \cup {cat} |->
            IF c = cat THEN catfactor * cat ELSE index[c]]

\* Material.__init__ that numbers every member as the first of its category
Material_flat(index, cat, name, r_bulk, thickness) ==
  [cat |-> cat, name |-> name, r_bulk |-> r_bulk, thickness |-> thickness,
   index |-> catfactor * cat]

\* Material.__init__: the new record, given the dictionary after indexer(cat)
Material(index, cat, name, r_bulk, thickness) ==
  [cat |-> cat, name |-> name, r_bulk |-> r_bulk, thickness |-> thickness,
   index |-> indexer(index, cat)[cat]]

----------------------------------------------------------------------------
(* The data table: the arguments of the M(...) calls, in order *)

MetalRow(name, millis) ==
  LET pm == plus_or_minus(Milli(millis), Milli(100))
  IN  [cat |-> metal, name |-> name,
       r_bulk |-> Value(BR, pm[1], pm[2], pm[3]),
       thickness |-> Value(TH, Milli(34800), Milli(17400), Milli(69600))]

InkRow(cat, name, b1, b2, b3, t1, t2, t3) ==
  [cat |-> cat, name |-> name,
   r_bulk |-> Value(BR, Milli(b1), Milli(b2), Milli(b3)),
   thickness |-> Value(TH, Milli(t1), Milli(t2), Milli(t3))]

CarbonRow(name, b1, b2, b3, t1, t2, t3) ==
  [cat |-> carbon, name |-> name,
   r_bulk |-> Value(BR, RInt(b1), RInt(b2), RInt(b3)),
   thickness |-> Value(TH, Milli(t1), Milli(t2), Milli(t3))]

rows ==
  << MetalRow("silver", 1600), MetalRow("copper", 1700), MetalRow("gold", 2400),
     MetalRow("aluminium", 2800), MetalRow("zinc", 5500), MetalRow("nickel", 7000),
     MetalRow("brass", 7500), MetalRow("platinum", 9800), MetalRow("iron", 10000),
     MetalRow("tin", 11000), MetalRow("lead", 19000),
     InkRow(flexo, "pfi-500", 8000, 7000, 9000, 510, 120, 900),
     InkRow(flexo, "pfi-600", 6000, 5000, 7000, 770, 140, 1400),
     InkRow(flexo, "pfi-722", 6000, 5000, 7000, 770, 140, 1400),
     InkRow(flexo, "pfi-rsa6004", 11000, 10000, 12000, 303, 125, 480),
     InkRow(flexo, "pfi-rsa6012", 9000, 8000, 10000, 315, 130, 500),
     InkRow(inkjet, "ci-004", 12000, 12000, 12000, 1000, 200, 2000),
     InkRow(inkjet, "ci-005", 9000, 9000, 9000, 1000, 200, 2000),
     InkRow(inkjet, "ici-002hv", 9150, 7500, 10800, 1000, 200, 2000),
     InkRow(inkjet, "js-a101a", 19400, 7800, 31000, 1000, 200, 2000),
     InkRow(inkjet, "js-a102a", 19400, 7800, 31000, 1000, 200, 2000),
     InkRow(inkjet, "js-a191", 19400, 7800, 31000, 1000, 200, 2000),
     InkRow(inkjet, "js-b25hv", 2800, 2800, 2800, 1000, 200, 2000),
     InkRow(screen, "cp-007", 17500, 17500, 17500, 15000, 5000, 30000),
     InkRow(screen, "cp-008", 25000, 25000, 25000, 15000, 5000, 30000),
     InkRow(screen, "cp-009", 25000, 25000, 25000, 15000, 5000, 30000),
     InkRow(screen, "hps-021lv", 10000, 10000, 10000, 15000, 5000, 30000),
     InkRow(screen, "hps-fg32", 17500, 11000, 24000, 15000, 5000, 30000),
     InkRow(screen, "hps-fg57b", 19000, 22000, 27000, 15000, 5000, 30000),
     InkRow(screen, "ici-021", 50000, 50000, 50000, 15000, 5000, 30000),
     InkRow(screen, "psi-211", 9000, 9000, 9000, 15000, 5000, 30000),
     InkRow(screen, "psi-219", 11000, 11000, 11000, 15000, 5000, 30000),
     InkRow(aerosol, "ci-006", 5100, 3400, 6800, 2000, 1000, 5000),
     InkRow(aerosol, "pspi-1000", 8500, 8500, 8500, 2000, 1000, 5000),
     CarbonRow("jr-700lv", 1200000, 1100000, 1300000, 1000, 200, 2000),
     CarbonRow("jr-700hv", 550000, 520000, 850000, 1000, 200, 2000),
     CarbonRow("hpr-059", 762000, 698000, 889000, 20000, 5000, 50000) >>

----------------------------------------------------------------------------
(* The views over the catalog *)

\* byname[name]: the dict comprehension keeps the last record of a name
byname(ms, name) ==
  LET S == {i \in 1..Len(ms) : ms[i].name = name}
  IN  ms[CHOOSE i \in S : \A j \in S : j <= i]

\* the category filter returning its records newest first
bycat_rev(ms, cat) ==
  LET f == SelectSeq(ms, LAMBDA x : x.cat = cat)
  IN  [i \in 1..Len(f) |-> f[Len(f) + 1 - i]]

\* [ x for x in matls if x.cat is cat ]
bycat(ms, cat) ==
  SelectSeq(ms, LAMBDA x : x.cat = cat)

MakeViews(ms) ==
  [bymetals  |-> <<byname(ms, "silver"), byname(ms, "copper"), byname(ms, "gold")>>,
   bycopper  |-> <<byname(ms, "copper")>>,
   byflexo   |-> bycat(ms, flexo),
   byinkjet  |-> bycat(ms, inkjet),
   byscreen  |-> bycat(ms, screen),
   byaerosol |-> bycat(ms, aerosol),
   bycarbon  |-> bycat(ms, carbon)]

ViewNames ==
  {"bymetals", "bycopper", "byflexo", "byinkjet", "byscreen", "byaerosol", "bycarbon"}

----------------------------------------------------------------------------
(* State *)

VARIABLES
  pc,        \* position of the script: load, views, main, plot, plot3, done, exited,
             \* raised; free and band in the construction harnesses; fn, value,
             \* pmvalue, interval, sr,
             \* stats, StatisticsError in the function harness
  index,     \* Material.index, the class dictionary category -> last index handed out
  matls,     \* the list of Material records built so far
  views,     \* bymetals, bycopper, byflexo, ... once lines 171-179 have run
  begin,     \* Plot2D.begin
  ax,        \* title, xlabel, ylabel and xlim set on Plot2D.ax ("" / <<>> while unset)
  ninit,     \* how many times an axis-initialisation block has run on the instance
  ncalls,    \* renderer calls made on the instance
  nscatter,  \* ax.scatter calls made on the instance
  lastcall,  \* the last renderer call: [op, mlist, units, outcome]
  xdata,     \* x array of the last ax.scatter call
  ydata,     \* y array of the last ax.scatter call, before np.log10 where one is applied
  ohms,      \* the list `ohms` of the last trace_resistance call that got to build it
  sweep,     \* the thickness sweep of the last sweep call, one record per material it
             \* got to: [cat, thickness, thlist, npoints]
  zdata,     \* z array of the last Plot3D plotting call, before np.log10
  p3,        \* the Plot3D instance: made, scatter_plot, wireframe_plot, trisurface_plot
  stats,     \* the statistics line of that call (lines 519-523): the category printed
             \* and the number of values summarised; NoStats when it printed none.  The
             \* values themselves are doubles outside the integer range of the model.
  fargs,     \* function harness: the arguments drawn
  fval,      \* function harness: the Value constructed from fargs
  fout       \* function harness: the result of the function applied

vars ==
  <<pc, index, matls, views, begin, ax, ninit, ncalls, nscatter, lastcall,
    xdata, ydata, ohms, stats, sweep, zdata, p3, fargs, fval, fout>>

catvars ==
  <<index, matls, views>>

plotvars ==
  <<begin, ax, ninit, ncalls, nscatter, lastcall, xdata, ydata, ohms, stats, sweep, zdata,
    p3>>

fnvars ==
  <<fargs, fval, fout>>

NoViews ==
  [v \in ViewNames |-> <<>>]

NoAxes ==
  [title |-> "", xlabel |-> "", ylabel |-> "", xlim |-> <<>>]

NoCall ==
  [op |-> "", mlist |-> "", units |-> "", outcome |-> ""]

NoStats ==
  [cat |-> "", n |-> 0]

NoPlot3D ==
  [made |-> FALSE, scatter_plot |-> FALSE, wireframe_plot |-> FALSE,
   trisurface_plot |-> FALSE]

NoArgs ==
  [units |-> BR, val1 |-> None, val2 |-> None, val3 |-> None, num |-> 0]

NoValue ==
  [units |-> BR, value |-> None, valmin |-> None, valmax |-> None]

CatInit ==
  /\ index = <<>>
  /\ matls = <<>>
  /\ views = NoViews

PlotInit ==
  /\ begin = FALSE
  /\ ax = NoAxes
  /\ ninit = 0
  /\ ncalls = 0
  /\ nscatter = 0
  /\ lastcall = NoCall
  /\ xdata = <<>>
  /\ ydata = <<>>
  /\ ohms = <<>>
  /\ stats = NoStats
  /\ sweep = <<>>
  /\ zdata = <<>>
  /\ p3 = NoPlot3D

FnInit ==
  /\ fargs = NoArgs
  /\ fval = NoValue
  /\ fout = <<>>

----------------------------------------------------------------------------
(* Module load: the data table and the views *)

\* one M(...) call of the matls list literal
LoadRow ==
  /\ pc = "load"
  /\ Len(matls) < Len(rows)
  /\ LET r == rows[Len(matls) + 1]
     IN  /\ matls' = Append(matls, Material(index, r.cat, r.name, r.r_bulk, r.thickness))
         /\ index' = indexer(index, r.cat)
  /\ pc' = IF Len(matls) + 1 = Len(rows) THEN "views" ELSE "load"
  /\ UNCHANGED <<views, plotvars, fnvars>>

\* byname, bymetals, bycopper, byflexo, ... are bound
BuildViews ==
  /\ pc = "views"
  /\ views' = MakeViews(matls)
  /\ pc' = "main"
  /\ UNCHANGED <<index, matls, plotvars, fnvars>>

----------------------------------------------------------------------------
(* Plot2D *)

RECURSIVE Flatten(_)
Flatten(ss) ==
  IF ss = <<>> THEN <<>> ELSE Head(ss) \o Flatten(Tail(ss))

\* the mlist arguments tried: None, an empty list, or one of these views
MListNames ==
  {"None", "empty", "bycopper", "byaerosol", "bycarbon"}

MList(mname) ==
  IF mname \in ViewNames THEN views[mname]
  ELSE IF mname = "matls" THEN matls
  ELSE <<>>

UnitChoices ==
  {"mOhms/Sq", "Ohms/Sq", "kOhms/Sq"}

signal_trace ==
  Trace(Q(RInt(3), Inch), Q(RInt(8), Milliinch), Q(Rat(14, 10), Milliinch))

heater_trace ==
  Trace(Q(RInt(2), Inch), Q(RInt(1), Cm), Q(Rat(14, 10), Milliinch))

\* an element of `traces` in plot2d_carbon_resistance
width_trace(w) ==
  Trace(Q(RInt(2), Inch), Q(RInt(w), Mm), Q(Rat(14, 10), Milliinch))

TraceChoices ==
  {heater_trace, width_trace(5)}

\* Plot2D.__init__
Plot2D ==
  /\ pc \in {"main", "free"}
  /\ begin' = TRUE
  /\ pc' = "plot"
  /\ UNCHANGED <<catvars, ax, ninit, ncalls, nscatter, lastcall, xdata, ydata, ohms, stats,
                 sweep, zdata, p3, fnvars>>

\* the `if self.begin:` block of a renderer method
InitAxes(title, xlabel, ylabel, xlim) ==
  /\ begin' = FALSE
  /\ ax' = IF begin
             THEN [title |-> title, xlabel |-> xlabel, ylabel |-> ylabel, xlim |-> xlim]
             ELSE ax
  /\ ninit' = IF begin THEN ninit + 1 ELSE ninit

\* self.ax.scatter(x, y, ...)
Scatter(x, y) ==
  /\ xdata' = x
  /\ ydata' = y
  /\ nscatter' = nscatter + 1

NoScatter ==
  UNCHANGED <<xdata, ydata, nscatter>>

\* how the call ends: a normal return, exit(0), or an uncaught exception
Ends(op, mname, units, outcome) ==
  /\ lastcall' = [op |-> op, mlist |-> mname, units |-> units, outcome |-> outcome]
  /\ ncalls' = ncalls + 1
  /\ pc' = CASE outcome = "returned" -> "plot"
             [] outcome = "exit" -> "exited"
             [] OTHER -> "raised"

\* the metal special case dropped: divide_interval for every category
sweep_thlist_all(m, num) ==
  divide_interval(m.thickness, num)

\* [ w.microns for w in pcb_weights ] for a metal, else divide_interval
sweep_thlist(m, num) ==
  IF m.cat = metal
    THEN [i \in 1..Len(pcb_weights) |-> pcb_weights[i].microns]
    ELSE divide_interval(m.thickness, num)

\* for br in [ m.r_bulk.valmin, m.r_bulk.valmax ]
brlist(m) ==
  <<m.r_bulk.valmin, m.r_bulk.valmax>>

\* what a sweep did per material: the thlist it walked and the points it appended
Swept(mlist, thlists, pts) ==
  [i \in 1..Len(mlist) |->
     [cat |-> mlist[i].cat, thickness |-> mlist[i].thickness, thlist |-> thlists[i],
      npoints |-> Len(pts[i])]]

\* xdata of a sweep: one m.index per point
XIndex(mlist, perm) ==
  Flatten([i \in 1..Len(mlist) |-> [j \in 1..perm[i] |-> mlist[i].index]])

bulk_ydata(mlist) ==
  Flatten([i \in 1..Len(mlist) |-> brlist(mlist[i])])

bulk_resistivity(mname) ==
  /\ pc = "plot"
  /\ ncalls < MaxCalls
  /\ InitAxes("Bulk Resistivity of Various Materials", "Material",
              "Bulk resistivity in uOhm.cm", <<RInt(10), RInt(115)>>)
  /\ IF mname = "None"
       THEN NoScatter
       ELSE LET y == bulk_ydata(MList(mname))
            IN  Scatter(XIndex(MList(mname), [i \in 1..Len(MList(mname)) |-> 2]), y)
  /\ Ends("bulk_resistivity", mname, "", "returned")
  /\ UNCHANGED sweep
  /\ UNCHANGED <<catvars, ohms, stats, zdata, p3, fnvars>>

\* thlist of the sheet and trace sweeps, per material
sheet_thlists(mlist) ==
  [i \in 1..Len(mlist) |-> sweep_thlist(mlist[i], 10)]

\* the sr values of one material, in loop order
sheet_points(m, units) ==
  LET thlist == sheet_thlists(<<m>>)[1]
  IN  Flatten([b \in 1..2 |->
        [j \in 1..Len(thlist) |->
           LET sr == calc_sr(brlist(m)[b], thlist[j])
           IN  IF units = "Ohms/Sq" THEN RDiv(sr, RInt(1000)) ELSE sr]])

sheet_ydata(mlist, units) ==
  [i \in 1..Len(mlist) |-> sheet_points(mlist[i], units)]

sheet_resistance(mname, units) ==
  LET valid == units \in {"mOhms/Sq", "Ohms/Sq"}
      mlist == MList(mname)
  IN  /\ pc = "plot"
      /\ ncalls < MaxCalls
      /\ IF begin /\ ~valid
           THEN /\ UNCHANGED <<begin, ax, ninit>>
                /\ NoScatter
                /\ sweep' = <<>>
                /\ Ends("sheet_resistance", mname, units, "returned")
           ELSE /\ InitAxes("Sheet Resistances at Typical Thicknesses", "Material",
                            IF units = "mOhms/Sq" THEN "Sheet Resistance in mOhm/sq"
                                                  ELSE "Sheet Resistance in Ohm/sq",
                            <<RInt(10), RInt(130)>>)
                /\ IF mname = "None"
                     THEN /\ NoScatter
                          /\ sweep' = <<>>
                          /\ Ends("sheet_resistance", mname, units, "returned")
                     ELSE IF mlist # <<>> /\ ~valid
                       \* exit(0) at the first point of the first material
                       THEN /\ NoScatter
                            /\ sweep' = Swept(<<mlist[1]>>, sheet_thlists(mlist), <<<<>>>>)
                            /\ Ends("sheet_resistance", mname, units, "exit")
                       ELSE LET pts == sheet_ydata(mlist, units)
                            IN  /\ sweep' = Swept(mlist, sheet_thlists(mlist), pts)
                                /\ Scatter(XIndex(mlist, [i \in 1..Len(mlist) |-> Len(pts[i])]),
                                           Flatten(pts))
                                /\ Ends("sheet_resistance", mname, units,
                                        IF valid THEN "returned" ELSE "exit")
      /\ UNCHANGED <<catvars, ohms, stats, zdata, p3, fnvars>>

thickness_ydata(mlist) ==
  [i \in 1..Len(mlist) |-> sweep_thlist(mlist[i], 25)]

thickness(mname) ==
  /\ pc = "plot"
  /\ ncalls < MaxCalls
  /\ InitAxes("Typical Thicknesses by Material Type", "Material",
              "Sheet Thickness in um", <<RInt(10), RInt(115)>>)
  /\ IF mname = "None"
       THEN NoScatter /\ sweep' = <<>>
       ELSE LET pts == thickness_ydata(MList(mname))
            IN  /\ sweep' = Swept(MList(mname), pts, pts)
                /\ Scatter(XIndex(MList(mname), [i \in 1..Len(pts) |-> Len(pts[i])]),
                           Flatten(pts))
  /\ Ends("thickness", mname, "", "returned")
  /\ UNCHANGED <<catvars, ohms, stats, zdata, p3, fnvars>>

\* tr = (sr * trace.squares).to(u.ohms); tr.magnitude
trace_ohms(trace, br, th) ==
  To(QMul(calc_sr_units(br, th), trace.squares), Ohms).mag

trace_points(trace, m, thlist) ==
  Flatten([b \in 1..2 |->
    [j \in 1..Len(thlist) |-> trace_ohms(trace, brlist(m)[b], thlist[j])]])

trace_ydata(trace, mlist) ==
  [i \in 1..Len(mlist) |-> trace_points(trace, mlist[i], sheet_thlists(mlist)[i])]

RECURSIVE RSum(_)
RSum(data) ==
  IF data = <<>> THEN RInt(0) ELSE RAdd(Head(data), RSum(Tail(data)))

\* statistics.mean; the caller has checked Len(data) >= 1
stats_mean(data) ==
  RDiv(RSum(data), RInt(Len(data)))

\* the square of statistics.stdev; the caller has checked Len(data) >= 2
stats_variance(data) ==
  LET mu == stats_mean(data)
  IN  RDiv(RSum([i \in 1..Len(data) |->
                   RMul(RSub(data[i], mu), RSub(data[i], mu))]),
           RInt(Len(data) - 1))

\* the builtin min
py_min(data) ==
  data[CHOOSE i \in 1..Len(data) : \A j \in 1..Len(data) : RLe(data[i], data[j])]

\* the builtin max
py_max(data) ==
  data[CHOOSE i \in 1..Len(data) : \A j \in 1..Len(data) : RLe(data[j], data[i])]

\* lines 519-522: ohm_mean, ohm_stdev (squared), ohm_min, ohm_max
summary(data) ==
  <<stats_mean(data), stats_variance(data), py_min(data), py_max(data)>>

trace_resistance(trace, mname) ==
  LET mlist == MList(mname)
      pts == trace_ydata(trace, mlist)
      pop == Flatten(pts)
  IN  /\ pc = "plot"
      /\ ncalls < MaxCalls
      /\ InitAxes("Resistances of Trace", "Material", "Trace Resistance in Ohm",
                   <<RInt(10), RInt(130)>>)
      /\ IF mname = "None"
           THEN /\ NoScatter
                /\ sweep' = <<>>
                /\ UNCHANGED <<ohms, stats>>
                /\ Ends("trace_resistance", mname, "", "returned")
           ELSE /\ ohms' = pop
                /\ sweep' = Swept(mlist, sheet_thlists(mlist), pts)
                /\ IF mlist = <<>>
                     \* `m` is unbound after an empty loop: line 518 raises
                     THEN /\ NoScatter
                          /\ stats' = NoStats
                          /\ Ends("trace_resistance", mname, "", "UnboundLocalError")
                     ELSE IF mlist[Len(mlist)].cat # metal /\ Len(pop) < 2
                       \* stats.mean / stats.stdev on fewer than two values
                       THEN /\ NoScatter
                            /\ stats' = NoStats
                            /\ Ends("trace_resistance", mname, "", "StatisticsError")
                       ELSE /\ stats' = IF mlist[Len(mlist)].cat # metal
                                          THEN [cat |-> Catname[mlist[Len(mlist)].cat],
                                                n |-> Len(pop)]
                                          ELSE NoStats
                            /\ Scatter(XIndex(mlist, [i \in 1..Len(mlist) |-> Len(pts[i])]),
                                       pop)
                            /\ Ends("trace_resistance", mname, "", "returned")
      /\ UNCHANGED <<catvars, zdata, p3, fnvars>>

\* thlist = divide_interval( m.thickness, 10 ), whatever the category
width_thlists(mlist) ==
  [i \in 1..Len(mlist) |-> divide_interval(mlist[i].thickness, 10)]

width_ydata(trace, mlist) ==
  [i \in 1..Len(mlist) |-> trace_points(trace, mlist[i], width_thlists(mlist)[i])]

trace_resistance_vs_width(trace, mname) ==
  LET mlist == MList(mname)
      permatl == width_ydata(trace, mlist)
      pts == Flatten(permatl)
  IN  /\ pc = "plot"
      /\ ncalls < MaxCalls
      /\ InitAxes("Resistances of Trace", "Width in mm", "Trace Resistance in Ohm",
                   <<Rat(9, 10), RInt(110)>>)
      /\ IF mname = "None"
           THEN NoScatter /\ sweep' = <<>>
           ELSE /\ sweep' = Swept(mlist, width_thlists(mlist), permatl)
                /\ Scatter([i \in 1..Len(pts) |-> trace.width.mag], pts)
      /\ Ends("trace_resistance_vs_width", mname, "", "returned")
      /\ UNCHANGED <<catvars, ohms, stats, zdata, p3, fnvars>>

\* Plot2D.display: plt.savefig('out.png'), plt.show()
display ==
  /\ pc = "plot"
  /\ pc' = "done"
  /\ UNCHANGED <<catvars, plotvars, fnvars>>

\* Plot3D.__init__( scatter, wireframe, trisurface )
Plot3D(scatter, wireframe, trisurface) ==
  /\ pc = "main"
  /\ p3' = [made |-> TRUE, scatter_plot |-> scatter, wireframe_plot |-> wireframe,
            trisurface_plot |-> trisurface]
  /\ pc' = "plot3"
  /\ UNCHANGED <<catvars, begin, ax, ninit, ncalls, nscatter, lastcall, xdata, ydata, ohms,
                 stats, sweep, zdata, fnvars>>

\* scatter mode, one material: xdata, ydata, zdata with br outer and th inner
scatter3_data(m) ==
  LET brl == divide_interval(m.r_bulk, 10)
      thl == divide_interval(m.thickness, 10)
  IN  [thlist |-> thl,
       x |-> Flatten([b \in 1..Len(brl) |-> [j \in 1..Len(thl) |-> brl[b]]]),
       y |-> Flatten([b \in 1..Len(brl) |-> [j \in 1..Len(thl) |-> thl[j]]]),
       z |-> Flatten([b \in 1..Len(brl) |-> [j \in 1..Len(thl) |->
               To(QDiv(Q(brl[b], BR), Q(thl[j], TH)), SR).mag]])]

\* wireframe mode, one material: X, Y = np.meshgrid(brlist, thlist) and
\* Z = calc_sr(X, Y), row by row (one row per thickness)
wireframe_data(m) ==
  LET brl == divide_interval(m.r_bulk, 10)
      thl == divide_interval(m.thickness, 10)
  IN  [thlist |-> thl,
       x |-> Flatten([j \in 1..Len(thl) |-> [b \in 1..Len(brl) |-> brl[b]]]),
       y |-> Flatten([j \in 1..Len(thl) |-> [b \in 1..Len(brl) |-> thl[j]]]),
       z |-> Flatten([j \in 1..Len(thl) |-> [b \in 1..Len(brl) |->
               calc_sr(brl[b], thl[j])]])]

\* Plot3D.sheet_resistance.  The scatter and wireframe blocks plot once per
\* material; the trisurface block reads xdata after its loop (unbound when the
\* list is empty) and calls plot_surface with one positional argument, which
\* takes three.  A list of None cannot be iterated by any block.
Plot3D_sheet_resistance(mname) ==
  LET mlist == MList(mname)
      sweeps == p3.scatter_plot \/ p3.wireframe_plot
      anymode == sweeps \/ p3.trisurface_plot
      data(m) == IF p3.wireframe_plot THEN wireframe_data(m) ELSE scatter3_data(m)
      nplots == (IF p3.scatter_plot THEN Len(mlist) ELSE 0)
                + (IF p3.wireframe_plot THEN Len(mlist) ELSE 0)
      outcome == IF mname = "None"
                   THEN IF anymode THEN "TypeError" ELSE "returned"
                   ELSE IF ~p3.trisurface_plot THEN "returned"
                   ELSE IF mlist = <<>> THEN "UnboundLocalError"
                   ELSE "TypeError"
  IN  /\ pc = "plot3"
      /\ ncalls < MaxCalls
      /\ IF mname # "None" /\ sweeps /\ mlist # <<>>
           THEN /\ sweep' = Swept(mlist, [i \in 1..Len(mlist) |-> data(mlist[i]).thlist],
                                  [i \in 1..Len(mlist) |-> data(mlist[i]).z])
                /\ xdata' = data(mlist[Len(mlist)]).x
                /\ ydata' = data(mlist[Len(mlist)]).y
                /\ zdata' = data(mlist[Len(mlist)]).z
                /\ nscatter' = nscatter + nplots
           ELSE /\ sweep' = <<>>
                /\ UNCHANGED <<xdata, ydata, zdata, nscatter>>
      /\ lastcall' = [op |-> "Plot3D.sheet_resistance", mlist |-> mname, units |-> "",
                      outcome |-> outcome]
      /\ ncalls' = ncalls + 1
      /\ pc' = IF outcome = "returned" THEN "plot3" ELSE "raised"
      /\ UNCHANGED <<catvars, begin, ax, ninit, ohms, stats, p3, fnvars>>

\* Plot3D.display: plt.show()
Plot3D_display ==
  /\ pc = "plot3"
  /\ pc' = "done"
  /\ UNCHANGED <<catvars, plotvars, fnvars>>

----------------------------------------------------------------------------
(* The program: module load, then renderer calls on one Plot2D or Plot3D    *)
(* instance                                                                *)

Init ==
  /\ pc = "load"
  /\ CatInit
  /\ PlotInit
  /\ FnInit

Next ==
  \/ LoadRow
  \/ BuildViews
  \/ Plot2D
  \/ \E mname \in MListNames : bulk_resistivity(mname)
  \/ \E mname \in MListNames, units \in UnitChoices : sheet_resistance(mname, units)
  \/ \E mname \in MListNames : thickness(mname)
  \/ \E mname \in MListNames, trace \in TraceChoices : trace_resistance(trace, mname)
  \/ \E mname \in MListNames, trace \in TraceChoices : trace_resistance_vs_width(trace, mname)
  \/ display
  \/ \E scatter \in BOOLEAN, wireframe \in BOOLEAN, trisurface \in BOOLEAN :
       Plot3D(scatter, wireframe, trisurface)
  \/ \E mname \in MListNames : Plot3D_sheet_resistance(mname)
  \/ Plot3D_display

Spec ==
  Init /\ [][Next]_vars

----------------------------------------------------------------------------
(* Construction harness: Material(...) calls of any categories in any      *)
(* order, or the data table in its own order                               *)

Construct(cat) ==
  /\ pc = "free"
  /\ Len(matls) < MaxMatls
  /\ matls' = Append(matls, Material(index, cat, "anon",
                                     Value(BR, RInt(1), None, None),
                                     Value(TH, RInt(1), None, None)))
  /\ index' = indexer(index, cat)
  /\ UNCHANGED <<pc, views, plotvars, fnvars>>

IdxInit ==
  /\ pc \in {"free", "load"}
  /\ CatInit
  /\ PlotInit
  /\ FnInit

IdxNext ==
  \/ \E cat \in Category : Construct(cat)
  \/ LoadRow

SpecIdx ==
  IdxInit /\ [][IdxNext]_vars

----------------------------------------------------------------------------
(* Band harness: long construction sequences over two neighbouring          *)
(* categories, or the data table                                            *)

\* constructions in one sequence
MaxBand == 22

\* of which in the second category
MaxFew == 2

BandCategory ==
  {metal, flexo}

Members(cat) ==
  {i \in 1..Len(matls) : matls[i].cat = cat}

\* Material( cat, ... ) called by a client of the module, many times over
ConstructMany(cat) ==
  /\ pc = "band"
  /\ Len(matls) < MaxBand
  /\ cat = flexo => Cardinality(Members(flexo)) < MaxFew
  /\ matls' = Append(matls, Material(index, cat, "anon",
                                     Value(BR, RInt(1), None, None),
                                     Value(TH, RInt(1), None, None)))
  /\ index' = indexer(index, cat)
  /\ UNCHANGED <<pc, views, plotvars, fnvars>>

BandInit ==
  /\ pc \in {"band", "load"}
  /\ CatInit
  /\ PlotInit
  /\ FnInit

BandNext ==
  \/ \E cat \in BandCategory : ConstructMany(cat)
  \/ LoadRow

SpecBand ==
  BandInit /\ [][BandNext]_vars

----------------------------------------------------------------------------
(* Sweep harness: a caller builds its own Materials, then renders the list *)
(* `matls` on one Plot2D instance                                          *)

\* number of Materials the caller builds
MaxAdhoc == 2

\* bulk resistivities tried: copper's estimate alone, zero, and 0.05 +/- 0.1
AdhocBulk ==
  LET pm == plus_or_minus(Milli(50), Milli(100))
  IN  {Value(BR, Milli(1700), None, None),
       Value(BR, RInt(0), None, None),
       Value(BR, pm[1], pm[2], pm[3])}

AdhocThickness ==
  {Value(TH, RInt(1), Milli(200), RInt(2))}

AdhocCategory ==
  {metal, flexo}

\* M( cat, 'adhoc', r_bulk, thickness )
ConstructAdhoc(cat, r_bulk, th) ==
  /\ pc = "free"
  /\ Len(matls) < MaxAdhoc
  /\ matls' = Append(matls, Material(index, cat, "adhoc", r_bulk, th))
  /\ index' = indexer(index, cat)
  /\ UNCHANGED <<pc, views, plotvars, fnvars>>

SweepInit ==
  /\ pc = "free"
  /\ CatInit
  /\ PlotInit
  /\ FnInit

SweepNext ==
  \/ \E cat \in AdhocCategory, r_bulk \in AdhocBulk, th \in AdhocThickness :
       ConstructAdhoc(cat, r_bulk, th)
  \/ Plot2D
  \/ bulk_resistivity("matls")
  \/ \E units \in {"mOhms/Sq", "Ohms/Sq"} : sheet_resistance("matls", units)
  \/ thickness("matls")
  \/ trace_resistance(heater_trace, "matls")
  \/ trace_resistance_vs_width(heater_trace, "matls")
  \/ display

SpecSweep ==
  SweepInit /\ [][SweepNext]_vars

----------------------------------------------------------------------------
(* Function harness: Value, plus_or_minus, divide_interval and calc_sr     *)
(* applied to arguments drawn from small sets                              *)

Mags ==
  {Milli(100), Milli(1700), RInt(2), Milli(34800)}

ArgShapes ==
  {a \in [units : {BR, TH}, val1 : Mags, val2 : Mags \cup {None},
          val3 : Mags \cup {None}, num : 1..MaxNum] :
     a.val2 = None => a.val3 = None}

\* V( units, val1 [, val2 [, val3]] )
NewValue ==
  /\ pc = "fn"
  /\ fval' = Value(fargs.units, fargs.val1, fargs.val2, fargs.val3)
  /\ pc' = "value"
  /\ UNCHANGED <<catvars, plotvars, fargs, fout>>

\* V( units, *PM( value, tolerance ) )
NewValuePM ==
  /\ pc = "fn"
  /\ fargs.val2 # None
  /\ fargs.val3 = None
  /\ LET pm == plus_or_minus(fargs.val1, fargs.val2)
     IN  fval' = Value(fargs.units, pm[1], pm[2], pm[3])
  /\ pc' = "pmvalue"
  /\ UNCHANGED <<catvars, plotvars, fargs, fout>>

DivideInterval ==
  /\ pc \in {"value", "pmvalue"}
  /\ fout' = divide_interval(fval, fargs.num)
  /\ pc' = "interval"
  /\ UNCHANGED <<catvars, plotvars, fargs, fval>>

\* calc_sr at (val1, val3), (val2, val3), (val3, val1), (val3, val2)
CalcSr ==
  /\ pc = "fn"
  /\ fargs.val3 # None
  /\ fout' = << calc_sr(fargs.val1, fargs.val3), calc_sr(fargs.val2, fargs.val3),
                calc_sr(fargs.val3, fargs.val1), calc_sr(fargs.val3, fargs.val2) >>
  /\ pc' = "sr"
  /\ UNCHANGED <<catvars, plotvars, fargs, fval>>

\* the population [val1, val2, val3] without its omitted members
Population(a) ==
  <<a.val1>> \o (IF a.val2 = None THEN <<>> ELSE <<a.val2>>)
             \o (IF a.val3 = None THEN <<>> ELSE <<a.val3>>)

\* stats.mean, stats.stdev, min, max over a population (lines 519-522)
Summary ==
  /\ pc = "fn"
  /\ IF Len(Population(fargs)) < 2
       THEN fout' = <<>> /\ pc' = "StatisticsError"
       ELSE fout' = summary(Population(fargs)) /\ pc' = "stats"
  /\ UNCHANGED <<catvars, plotvars, fargs, fval>>

FnSpecInit ==
  /\ pc = "fn"
  /\ CatInit
  /\ PlotInit
  /\ fargs \in ArgShapes
  /\ fval = NoValue
  /\ fout = <<>>

FnNext ==
  \/ NewValue
  \/ NewValuePM
  \/ DivideInterval
  \/ CalcSr
  \/ Summary

SpecFn ==
  FnSpecInit /\ [][FnNext]_vars

----------------------------------------------------------------------------
(* Properties *)

RAbs(a) ==
  [n |-> Abs(a.n), d |-> a.d]

InRange(v) ==
  RLe(v.valmin, v.value) /\ RLe(v.value, v.valmax)

NonDecreasing(seq) ==
  \A i \in 1..(Len(seq) - 1) : RLe(seq[i], seq[i + 1])

NonIncreasing(seq) ==
  \A i \in 1..(Len(seq) - 1) : RLe(seq[i + 1], seq[i])

Names(v) ==
  [i \in 1..Len(v) |-> v[i].name]

\* C1: every Value held by a Material of the catalog satisfies
\* valmin <= value <= valmax, for r_bulk and for thickness.
C1_CatalogValuesInRange ==
  \A i \in 1..Len(matls) : InRange(matls[i].r_bulk) /\ InRange(matls[i].thickness)

\* C2: Value construction stores its raw magnitudes unchanged: one value v gives
\* value = valmin = valmax = v; two values give valmin = v1, valmax = v2 and
\* value = (v1 + v2) / 2; three values give value, valmin, valmax in that order,
\* whether or not lo <= center <= hi.
C2_ValueStoresRaw ==
  pc = "value" =>
    /\ fargs.val2 = None =>
         fval.value = fargs.val1 /\ fval.valmin = fargs.val1 /\ fval.valmax = fargs.val1
    /\ (fargs.val2 # None /\ fargs.val3 = None) =>
         /\ fval.valmin = fargs.val1
         /\ fval.valmax = fargs.val2
         /\ RAdd(fval.value, fval.value) = RAdd(fargs.val1, fargs.val2)
    /\ fargs.val3 # None =>
         fval.value = fargs.val1 /\ fval.valmin = fargs.val2 /\ fval.valmax = fargs.val3

\* a three-value construction whose magnitudes are out of order has been made
C2_Witness ==
  /\ pc = "value"
  /\ fargs.val3 # None
  /\ RLt(fargs.val3, fargs.val2)
  /\ RLt(fargs.val1, fargs.val3)

\* C3 as stated: divide_interval returns exactly N points, the first equal to
\* valmin, the last equal to valmax, monotonically non-decreasing, for every
\* Value and every N >= 1.
C3_AsStated ==
  pc = "interval" =>
    /\ Len(fout) = fargs.num
    /\ fout[1] = fval.valmin
    /\ fout[Len(fout)] = fval.valmax
    /\ NonDecreasing(fout)

\* C3 amended: divide_interval returns exactly N points, the first equal to
\* valmin; for N >= 2 the last equals valmax; the points are non-decreasing when
\* valmin <= valmax and non-increasing when valmax <= valmin.
C3_IntervalEndpoints ==
  pc = "interval" =>
    /\ Len(fout) = fargs.num
    /\ fout[1] = fval.valmin
    /\ fargs.num >= 2 => fout[Len(fout)] = fval.valmax
    /\ RLe(fval.valmin, fval.valmax) => NonDecreasing(fout)
    /\ RLe(fval.valmax, fval.valmin) => NonIncreasing(fout)

\* an interval of at least three points over a Value with valmin < valmax
C3_Witness ==
  /\ pc = "interval"
  /\ fargs.num >= 3
  /\ RLt(fval.valmin, fval.valmax)

\* C4 as stated: with valmin = valmax, divide_interval returns a sequence of a
\* single point, that value, whatever N is.
C4_AsStated ==
  (pc = "interval" /\ fval.valmin = fval.valmax) =>
    Len(fout) = 1 /\ fout[1] = fval.valmin

\* C4 amended: with valmin = valmax, divide_interval returns N points, every one
\* of them equal to that value.
C4_DegenerateInterval ==
  (pc = "interval" /\ fval.valmin = fval.valmax) =>
    /\ Len(fout) = fargs.num
    /\ \A i \in 1..Len(fout) : fout[i] = fval.valmin

\* a degenerate Value sampled with N >= 2
C4_Witness ==
  /\ pc = "interval"
  /\ fval.valmin = fval.valmax
  /\ fargs.num >= 2
  /\ Len(fout) = fargs.num

\* how many of the first i-1 constructions had the category of the i-th
Earlier(i) ==
  Cardinality({j \in 1..(i - 1) : matls[j].cat = matls[i].cat})

\* C5: the k-th Material constructed with category c has index 20*c + (k-1),
\* however constructions of other categories are interleaved; in the data table
\* silver gets 20 and copper 21.
C5_IndexLaw ==
  \A i \in 1..Len(matls) :
    /\ matls[i].index = 20 * matls[i].cat + Earlier(i)
    /\ matls[i].name = "silver" => matls[i].index = 20
    /\ matls[i].name = "copper" => matls[i].index = 21

\* two categories interleaved, the second member of the first one constructed last
C5_Witness ==
  /\ pc = "free"
  /\ Len(matls) >= 3
  /\ matls[1].cat = matls[3].cat
  /\ matls[2].cat # matls[1].cat
  /\ matls[3].index = 20 * matls[3].cat + 1

ViewsBound ==
  pc \in {"main", "plot", "done", "exited", "raised"}

Pos(m) ==
  CHOOSE k \in 1..Len(matls) : matls[k] = m

\* v holds exactly the catalog records of category cat, each once, in catalog order
ExactlyCategory(v, cat) ==
  /\ \A i \in 1..Len(v) : \E k \in 1..Len(matls) : matls[k] = v[i] /\ matls[k].cat = cat
  /\ \A k \in 1..Len(matls) :
       matls[k].cat = cat => Cardinality({i \in 1..Len(v) : v[i] = matls[k]}) = 1
  /\ \A i, j \in 1..Len(v) : i < j => Pos(v[i]) < Pos(v[j])

CategoryView(cat) ==
  CASE cat = metal -> views.bymetals
    [] cat = flexo -> views.byflexo
    [] cat = inkjet -> views.byinkjet
    [] cat = screen -> views.byscreen
    [] cat = aerosol -> views.byaerosol
    [] OTHER -> views.bycarbon

\* C6 as stated: for every category the per-category view holds exactly the
\* catalog records of that category, each once, in insertion order; the carbon
\* view is [jr-700lv, jr-700hv, hpr-059].
C6_AsStated ==
  ViewsBound =>
    /\ \A cat \in Category : ExactlyCategory(CategoryView(cat), cat)
    /\ Names(views.bycarbon) = <<"jr-700lv", "jr-700hv", "hpr-059">>

\* C6 amended: for every category other than metal the view holds exactly the
\* catalog records of that category, each once, in insertion order, the carbon
\* view being [jr-700lv, jr-700hv, hpr-059]; bymetals is the three metal
\* records [silver, copper, gold].
C6_CategoryViews ==
  ViewsBound =>
    /\ \A cat \in Category \ {metal} : ExactlyCategory(CategoryView(cat), cat)
    /\ Names(views.bycarbon) = <<"jr-700lv", "jr-700hv", "hpr-059">>
    /\ Names(views.bymetals) = <<"silver", "copper", "gold">>
    /\ \A i \in 1..Len(views.bymetals) :
         \E k \in 1..Len(matls) : matls[k] = views.bymetals[i] /\ matls[k].cat = metal

\* the views have been built from the whole table
C6_Witness ==
  /\ pc = "main"
  /\ Len(matls) = Len(rows)
  /\ Len(views.bycarbon) = 3
  /\ Len(views.byscreen) = 9

\* C7: calc_sr is strictly increasing in bulk for a fixed positive thickness
\* and strictly decreasing in thickness for a fixed positive bulk.
C7_SheetResistanceMonotone ==
  (pc = "sr" /\ RLt(fargs.val1, fargs.val2)) =>
    /\ RLt(fout[1], fout[2])
    /\ RLt(fout[4], fout[3])

\* calc_sr has been applied to two different bulks and two different thicknesses
C7_Witness ==
  /\ pc = "sr"
  /\ RLt(fargs.val1, fargs.val2)
  /\ fargs.val3 # fargs.val1
  /\ fargs.val3 # fargs.val2

\* C8: calc_sr is 10 times the raw ratio bulk / thickness, in milliohms per
\* square; for copper (1.70, 34.8) that is 0.4885 within 1%.
C8_CopperSheetResistance ==
  pc = "sr" =>
    /\ fout[1] = RMul(RInt(10), RDiv(fargs.val1, fargs.val3))
    /\ (fargs.val1 = Milli(1700) /\ fargs.val3 = Milli(34800)) =>
         RLe(RAbs(RSub(fout[1], Rat(4885, 10000))), Rat(4885, 1000000))

\* calc_sr has been applied to copper's bulk resistivity and 1 oz thickness
C8_Witness ==
  /\ pc = "sr"
  /\ fargs.val1 = Milli(1700)
  /\ fargs.val3 = Milli(34800)

\* C9: a call of Plot2D.sheet_resistance with a unit selection other than
\* "mOhms/Sq" or "Ohms/Sq" never returns normally: it terminates the process.
C9_InvalidUnitsFatal ==
  (lastcall.op = "sheet_resistance" /\ lastcall.units \notin {"mOhms/Sq", "Ohms/Sq"}) =>
    lastcall.outcome = "exit"

\* C10: once a renderer call has been made on the Plot2D instance, the axis
\* initialisation has run exactly once and begin is False.
C10_InitOnceByFirstCall ==
  ncalls >= 1 => (begin = FALSE /\ ninit = 1)

\* C11: when trace_resistance is handed a material list (None excepted), a
\* population of fewer than 2 values ends in the insufficient-data error of the
\* statistics and no statistics; a population of 2 or more values gets its
\* statistics.
C11_InsufficientData ==
  (lastcall.op = "trace_resistance" /\ lastcall.mlist # "None") =>
    IF Len(ohms) < 2
      THEN lastcall.outcome = "StatisticsError" /\ stats = NoStats
      ELSE lastcall.outcome = "returned" /\ stats # NoStats /\ stats.n = Len(ohms)

\* the renderer operations that hand their population to np.log10
LogOps ==
  {"sheet_resistance", "thickness", "trace_resistance", "trace_resistance_vs_width"}

\* C12: a renderer call that log-transforms its population and returns has
\* handed only strictly positive values to np.log10; a non-positive derived
\* value is rejected before the transform.
C12_NonPositiveRejected ==
  (lastcall.op \in LogOps /\ lastcall.mlist # "None" /\ lastcall.outcome = "returned") =>
    \A i \in 1..Len(ydata) : ydata[i].n > 0

SweepOps ==
  {"sheet_resistance", "thickness", "trace_resistance", "trace_resistance_vs_width",
   "Plot3D.sheet_resistance"}

\* the thlist is exactly the microns of the four PCB weights
WeightSweep(r) ==
  r.thlist = [i \in 1..Len(pcb_weights) |-> pcb_weights[i].microns]

\* the thlist samples the material's own interval: from valmin to valmax, all
\* samples inside
OwnInterval(r) ==
  /\ r.thlist # <<>>
  /\ r.thlist[1] = r.thickness.valmin
  /\ r.thlist[Len(r.thlist)] = r.thickness.valmax
  /\ \A j \in 1..Len(r.thlist) :
       RLe(r.thickness.valmin, r.thlist[j]) /\ RLe(r.thlist[j], r.thickness.valmax)

\* the sweep of one material as the weights rule has it; num samples for a non-metal
ByWeightsRule(r, num) ==
  IF r.cat = metal
    THEN WeightSweep(r) /\ ~OwnInterval(r)
    ELSE OwnInterval(r) /\ Len(r.thlist) = num

PointsByRule(r) ==
  r.npoints = IF r.cat = metal THEN 2 * 4 ELSE 2 * 10

DistinctIndex ==
  \A i, j \in 1..Len(matls) : i # j => matls[i].index # matls[j].index

InBand ==
  \A i \in 1..Len(matls) :
    20 * matls[i].cat <= matls[i].index /\ matls[i].index <= 20 * matls[i].cat + 19

\* C14: the records of the data table have distinct indices, each inside the
\* band [20c, 20c + 19] of its category c; for any construction sequence the two
\* hold exactly while no category has more than 20 members, and the 21st member
\* of category c gets 20(c + 1), the index of the first member of category c + 1.
C14_BandLaw ==
  /\ pc # "band" => DistinctIndex /\ InBand
  /\ (DistinctIndex /\ InBand) <=> \A c \in Category : Cardinality(Members(c)) <= 20
  /\ \A i, j \in 1..Len(matls) :
       (Earlier(i) = 20 /\ matls[j].cat = matls[i].cat + 1 /\ Earlier(j) = 0)
         => matls[i].index = matls[j].index

\* a 21st metal and a first flexo have both been constructed
C14_Witness ==
  /\ pc = "band"
  /\ Cardinality(Members(metal)) = 21
  /\ Cardinality(Members(flexo)) >= 1
  /\ ~DistinctIndex

====
